---- MODULE Spec2Model ----
(***************************************************************************)
(* Model of the @step decorator of playwright-step-decorator:              *)
(* the description formatter, the call-site locator and the invocation     *)
(* wrapper with its per-instance step context.                             *)
(*                                                                         *)
(* Text is modelled as a sequence of one-character strings, so that the    *)
(* regular expressions and String.prototype.replace act on characters.     *)
(***************************************************************************)
EXTENDS Integers, Sequences, FiniteSets, TLC

(***************************************************************************)
(* Bounds of the model.                                                    *)
(***************************************************************************)
\* number of fragments a template of the formatter specification is made of
MaxTokens == 2
\* number of arguments passed to one call
MaxArgs == 2
\* number of wrapped calls of the wrapper specification
MaxCalls == 2

\* the most frames of callers a captured stack has below the frames of the wrapper
MaxFrames == 2

(***************************************************************************)
(* Text helpers (JavaScript string primitives).                            *)
(***************************************************************************)
Digits == <<"0", "1", "2", "3", "4", "5", "6", "7", "8", "9">>

IsDigit(ch) == \E d \in 1..10 : Digits[d] = ch

DigitVal(ch) == (CHOOSE d \in 1..10 : Digits[d] = ch) - 1

\* the characters the regular expression atom `.` does not match
LineTerminators == {"\n", "\r"}

\* the characters String.prototype.trim and parseInt treat as white space
WhiteSpace == {" ", "\t", "\n", "\r"}

\* s.slice(from - 1, to) for 1-based inclusive positions
Slice(s, from, to) == IF from > to THEN <<>> ELSE SubSeq(s, from, to)

\* s.startsWith(p, at - 1)
StartsWithAt(s, p, at) ==
    /\ at >= 1
    /\ at + Len(p) - 1 <= Len(s)
    /\ \A k \in 1..Len(p) : s[at + k - 1] = p[k]

startsWith(s, p) == StartsWithAt(s, p, 1)

endsWith(s, p) == Len(p) <= Len(s) /\ StartsWithAt(s, p, Len(s) - Len(p) + 1)

RECURSIVE IndexOfFrom(_, _, _)
\* s.indexOf(p, from - 1) + 1: the first position >= from where p occurs, 0 if none
IndexOfFrom(s, p, from) ==
    IF from + Len(p) - 1 > Len(s) THEN 0
    ELSE IF StartsWithAt(s, p, from) THEN from
    ELSE IndexOfFrom(s, p, from + 1)

indexOf(s, p) == IndexOfFrom(s, p, 1)

\* the position of an element in an array (Array.prototype.indexOf + 1), 0 if absent
ArrayIndexOf(arr, x) ==
    LET hits == {i \in 1..Len(arr) : arr[i] = x}
    IN IF hits = {} THEN 0 ELSE CHOOSE i \in hits : \A j \in hits : i <= j

includes(arr, x) == \E i \in 1..Len(arr) : arr[i] = x

RECURSIVE join(_, _)
\* Array.prototype.join
join(ss, sep) ==
    IF ss = <<>> THEN <<>>
    ELSE IF Len(ss) = 1 THEN ss[1]
    ELSE ss[1] \o sep \o join(Tail(ss), sep)

\* String.prototype.split with a one-character separator: the pieces between the
\* occurrences of sep, in order
split(s, sep) ==
    LET at == {i \in 1..Len(s) : s[i] = sep}
        \* the position of the k-th occurrence of sep, 0 for k = 0, Len(s) + 1 after the last
        pos(k) == IF k = 0 THEN 0
                  ELSE IF k > Cardinality(at) THEN Len(s) + 1
                  ELSE CHOOSE i \in at : Cardinality({j \in at : j < i}) = k - 1
    IN [k \in 1..(Cardinality(at) + 1) |-> Slice(s, pos(k - 1) + 1, pos(k) - 1)]

RECURSIVE trimStart(_)
trimStart(s) == IF s # <<>> /\ Head(s) \in WhiteSpace THEN trimStart(Tail(s)) ELSE s

RECURSIVE trimEnd(_)
trimEnd(s) ==
    IF s # <<>> /\ s[Len(s)] \in WhiteSpace THEN trimEnd(Slice(s, 1, Len(s) - 1)) ELSE s

\* String.prototype.trim
trim(s) == trimEnd(trimStart(s))

RECURSIVE NatToText(_)
\* the decimal text of a natural number (Number.prototype.toString)
NatToText(n) ==
    IF n < 10 THEN <<Digits[n + 1]>> ELSE NatToText(n \div 10) \o <<Digits[(n % 10) + 1]>>

\* a number that may be NaN: isNaN(x) is x.nan, its value otherwise x.n
Num(n) == [nan |-> FALSE, n |-> n]

NaN == [nan |-> TRUE, n |-> 0]

\* the text of a number as a template literal renders it
NumToText(x) ==
    IF x.nan THEN <<"N", "a", "N">>
    ELSE IF x.n < 0 THEN <<"-">> \o NatToText(0 - x.n)
    ELSE NatToText(x.n)

RECURSIVE DigitPrefixVal(_, _)
\* the value of the longest prefix of decimal digits of s, acc being the value read so far
DigitPrefixVal(s, acc) ==
    IF s # <<>> /\ IsDigit(Head(s)) THEN DigitPrefixVal(Tail(s), acc * 10 + DigitVal(Head(s)))
    ELSE acc

\* parseInt(s, 10): white space, an optional sign, the longest digit prefix; NaN without a digit
parseInt(s) ==
    LET t == trimStart(s)
        neg == t # <<>> /\ Head(t) = "-"
        u == IF t # <<>> /\ Head(t) \in {"-", "+"} THEN Tail(t) ELSE t
    IN IF u = <<>> \/ ~IsDigit(Head(u)) THEN NaN
       ELSE IF neg THEN Num(0 - DigitPrefixVal(u, 0)) ELSE Num(DigitPrefixVal(u, 0))

(***************************************************************************)
(* JavaScript values: the arguments of a wrapped call.                     *)
(***************************************************************************)
Undefined == [t |-> "undefined"]

Null == [t |-> "null"]

Str(s) == [t |-> "string", s |-> s]

Number(n) == [t |-> "number", n |-> n]

\* a plain data object, props mapping each own property name to its value
Obj(props) == [t |-> "object", props |-> props]

\* String(value): the language's default string coercion
String(v) ==
    CASE v.t = "string" -> v.s
      [] v.t = "number" -> NumToText(Num(v.n))
      [] v.t = "undefined" -> <<"u", "n", "d", "e", "f", "i", "n", "e", "d">>
      [] v.t = "null" -> <<"n", "u", "l", "l">>
      [] v.t = "object" ->
            <<"[", "o", "b", "j", "e", "c", "t", " ", "O", "b", "j", "e", "c", "t", "]">>

\* the truthiness of a value, as `value && ...` tests it
Truthy(v) ==
    CASE v.t = "string" -> v.s # <<>>
      [] v.t = "number" -> v.n # 0
      [] v.t = "undefined" -> FALSE
      [] v.t = "null" -> FALSE
      [] v.t = "object" -> TRUE

\* typeof value
typeof(v) == IF v.t = "null" THEN "object" ELSE v.t

\* `key in value` for a plain data object
HasProperty(v, key) == key \in DOMAIN v.props

\* args[i - 1] for a 1-based position i: undefined outside the array (also for index -1)
ArgAt(args, i) == IF i \in 1..Len(args) THEN args[i] ELSE Undefined

(***************************************************************************)
(* String.prototype.replace(pattern, replacement) with a string pattern:   *)
(* only the first occurrence is replaced, and the replacement text is      *)
(* expanded: $$ is $, $& the matched text, $` the text before the match,   *)
(* $' the text after it.                                                   *)
(***************************************************************************)
RECURSIVE GetSubstitution(_, _, _, _)
GetSubstitution(repl, matched, before, after) ==
    IF repl = <<>> THEN <<>>
    ELSE IF Head(repl) = "$" /\ Len(repl) >= 2 /\ repl[2] \in {"$", "&", "`", "'"}
    THEN (CASE repl[2] = "$" -> <<"$">>
            [] repl[2] = "&" -> matched
            [] repl[2] = "`" -> before
            [] repl[2] = "'" -> after)
         \o GetSubstitution(Slice(repl, 3, Len(repl)), matched, before, after)
    ELSE <<Head(repl)>> \o GetSubstitution(Tail(repl), matched, before, after)

replace(str, pattern, replacement) ==
    LET i == indexOf(str, pattern)
        before == Slice(str, 1, i - 1)
        after == Slice(str, i + Len(pattern), Len(str))
    IN IF i = 0 THEN str
       ELSE before \o GetSubstitution(replacement, pattern, before, after) \o after

(***************************************************************************)
(* The description formatter.                                              *)
(***************************************************************************)
OpenCurly == <<"{", "{">>

CloseCurly == <<"}", "}">>

OpenSquare == <<"[", "[">>

CloseSquare == <<"]", "]">>

RECURSIVE CurlyMatches(_, _)
\* the capture groups of description.matchAll(/\{\{(.*?)\}\}/g), scanning from position pos
CurlyMatches(s, pos) ==
    LET i == IndexOfFrom(s, OpenCurly, pos)
        j == IndexOfFrom(s, CloseCurly, i + 2)
        content == Slice(s, i + 2, j - 1)
    IN IF i = 0 \/ j = 0 THEN <<>>
       ELSE IF \E k \in 1..Len(content) : content[k] \in LineTerminators
       THEN CurlyMatches(s, i + 1)
       ELSE <<content>> \o CurlyMatches(s, j + 2)

RECURSIVE DigitRun(_, _)
\* the number of decimal digits of s from position pos on
DigitRun(s, pos) == IF pos <= Len(s) /\ IsDigit(s[pos]) THEN 1 + DigitRun(s, pos + 1) ELSE 0

RECURSIVE SquareMatches(_, _)
\* the capture groups of description.matchAll(/\[\[(\d+)\]\]/g), scanning from position pos
SquareMatches(s, pos) ==
    LET i == IndexOfFrom(s, OpenSquare, pos)
        d == DigitRun(s, i + 2)
    IN IF i = 0 THEN <<>>
       ELSE IF d >= 1 /\ StartsWithAt(s, CloseSquare, i + 2 + d)
       THEN <<Slice(s, i + 2, i + 1 + d)>> \o SquareMatches(s, i + 4 + d)
       ELSE SquareMatches(s, i + 1)

\* getPlaceholders: the named placeholders' contents, then the positional ones as `[[digits]]`
getPlaceholders(description) ==
    LET curlyMatches == CurlyMatches(description, 1)
        squareMatches == SquareMatches(description, 1)
    IN curlyMatches
       \o [k \in 1..Len(squareMatches) |-> OpenSquare \o squareMatches[k] \o CloseSquare]

RECURSIVE findMissingParams(_, _)
\* the roots of the placeholders not starting with `[[` that are no parameter name
findMissingParams(placeholders, paramNames) ==
    IF placeholders = <<>> THEN <<>>
    ELSE LET ph == Head(placeholders)
             param == split(ph, ".")[1]
         IN (IF ~startsWith(ph, OpenSquare) /\ ~includes(paramNames, param)
             THEN <<param>> ELSE <<>>)
            \o findMissingParams(Tail(placeholders), paramNames)

\* the outcomes of formatting: a description, or an error with the values its message shows
Ok(description) == [kind |-> "ok", description |-> description]

MissingParameter(methodName, missingParams) ==
    [kind |-> "MissingParameter", method |-> methodName,
     names |-> missingParams, listed |-> join(missingParams, <<",", " ">>)]

IndexOutOfBounds(methodName, index, count) ==
    [kind |-> "IndexOutOfBounds", method |-> methodName,
     index |-> NumToText(index), count |-> count]

MissingProperty(methodName, placeholder, segment, root) ==
    [kind |-> "MissingProperty", method |-> methodName,
     placeholder |-> OpenCurly \o placeholder \o CloseCurly,
     segment |-> segment, root |-> root]

\* FailingPart naming the last part of the path instead of the one the walk stopped at
FailingPart_Last(parts, i) == parts[Len(parts)]

\* the part the error names when the walk of parts stops at parts[i]
FailingPart(parts, i) == parts[i]

RECURSIVE WalkParts(_, _, _)
\* WalkParts enforcing bounds on named placeholders too: a walk that ends on an absent
\* value fails
WalkParts_DefinedOnly(value, parts, i) ==
    IF i > Len(parts)
    THEN [ok |-> value.t # "undefined", value |-> value,
          part |-> IF value.t # "undefined" THEN <<>> ELSE parts[1]]
    ELSE IF Truthy(value) /\ typeof(value) = "object" /\ HasProperty(value, parts[i])
    THEN WalkParts(value.props[parts[i]], parts, i + 1)
    ELSE [ok |-> FALSE, value |-> Undefined, part |-> FailingPart(parts, i)]

\* the loop over parts[1..] of a named placeholder: the value reached, or the failing part
WalkParts(value, parts, i) ==
    IF i > Len(parts) THEN [ok |-> TRUE, value |-> value, part |-> <<>>]
    ELSE IF Truthy(value) /\ typeof(value) = "object" /\ HasProperty(value, parts[i])
    THEN WalkParts(value.props[parts[i]], parts, i + 1)
    ELSE [ok |-> FALSE, value |-> Undefined, part |-> FailingPart(parts, i)]

\* IndexInvalid with the upper bound off by one: index > args.length
IndexInvalid_OffByOne(index, args) == index.nan \/ index.n < 0 \/ index.n > Len(args)

\* isNaN(index) || index < 0 || index >= args.length
IndexInvalid(index, args) == index.nan \/ index.n < 0 \/ index.n >= Len(args)

RECURSIVE formatDescription(_, _, _, _, _)
\* formatDescription, result being the description with the placeholders handled so far replaced
formatDescription(methodName, result, placeholders, paramNames, args) ==
    IF placeholders = <<>> THEN Ok(result)
    ELSE LET placeholder == Head(placeholders)
         IN IF startsWith(placeholder, OpenSquare) /\ endsWith(placeholder, CloseSquare)
            THEN LET index == parseInt(Slice(placeholder, 3, Len(placeholder) - 2))
                 IN IF IndexInvalid(index, args)
                    THEN IndexOutOfBounds(methodName, index, Len(args))
                    ELSE formatDescription(methodName,
                            replace(result, OpenSquare \o NumToText(index) \o CloseSquare,
                                    String(ArgAt(args, index.n + 1))),
                            Tail(placeholders), paramNames, args)
            ELSE LET parts == split(placeholder, ".")
                     paramIndex == ArrayIndexOf(paramNames, parts[1])
                     walk == WalkParts(ArgAt(args, paramIndex), parts, 2)
                 IN IF ~walk.ok
                    THEN MissingProperty(methodName, placeholder, walk.part, parts[1])
                    ELSE formatDescription(methodName,
                            replace(result, OpenCurly \o placeholder \o CloseCurly,
                                    String(walk.value)),
                            Tail(placeholders), paramNames, args)

(***************************************************************************)
(* Parameter names of the wrapped function, from its source text.          *)
(***************************************************************************)
RECURSIVE TrimmedNonEmpty(_)
\* .map(param => param.trim()).filter(param => param.length > 0)
TrimmedNonEmpty(pieces) ==
    IF pieces = <<>> THEN <<>>
    ELSE (IF trim(Head(pieces)) # <<>> THEN <<trim(Head(pieces))>> ELSE <<>>)
         \o TrimmedNonEmpty(Tail(pieces))

\* fnStr.match(/^[\s\S]*?\(([^)]*)\)/): the text from the first `(` to the first `)` after it
extractFunctionParamNames(fnStr) ==
    LET open == indexOf(fnStr, <<"(">>)
        close == IndexOfFrom(fnStr, <<")">>, open + 1)
    IN IF open = 0 \/ close = 0 THEN <<>>
       ELSE TrimmedNonEmpty(split(Slice(fnStr, open + 1, close - 1), ","))

(***************************************************************************)
(* The call-site locator.                                                  *)
(***************************************************************************)
IgnoredFragment1 ==
    <<"n", "o", "d", "e", "_", "m", "o", "d", "u", "l", "e", "s">>

IgnoredFragment2 ==
    <<"n", "o", "d", "e", ":", "i", "n", "t", "e", "r", "n", "a", "l">>

IgnoredFragment3 ==
    <<"/", "p", "l", "a", "y", "w", "r", "i", "g", "h", "t", "-", "s", "t",
      "e", "p", "-", "d", "e", "c", "o", "r", "a", "t", "o", "r", ".", "t",
      "s">>

IgnoredFragment4 ==
    <<"\\", "p", "l", "a", "y", "w", "r", "i", "g", "h", "t", "-", "s", "t",
      "e", "p", "-", "d", "e", "c", "o", "r", "a", "t", "o", "r", ".", "t",
      "s">>

IgnoredFragment5 ==
    <<"/", "s", "r", "c", "/", "p", "l", "a", "y", "w", "r", "i", "g", "h",
      "t", "-", "s", "t", "e", "p", "-", "d", "e", "c", "o", "r", "a", "t",
      "o", "r">>

IgnoredFragment6 ==
    <<"\\", "s", "r", "c", "\\", "p", "l", "a", "y", "w", "r", "i", "g", "h",
      "t", "-", "s", "t", "e", "p", "-", "d", "e", "c", "o", "r", "a", "t",
      "o", "r">>

IgnoredFragment7 ==
    <<"/", "d", "i", "s", "t", "/", "p", "l", "a", "y", "w", "r", "i", "g",
      "h", "t", "-", "s", "t", "e", "p", "-", "d", "e", "c", "o", "r", "a",
      "t", "o", "r">>

IgnoredFragment8 ==
    <<"\\", "d", "i", "s", "t", "\\", "p", "l", "a", "y", "w", "r", "i", "g",
      "h", "t", "-", "s", "t", "e", "p", "-", "d", "e", "c", "o", "r", "a",
      "t", "o", "r">>

ignoredFragments ==
    <<IgnoredFragment1, IgnoredFragment2, IgnoredFragment3, IgnoredFragment4,
      IgnoredFragment5, IgnoredFragment6, IgnoredFragment7, IgnoredFragment8>>

\* a source location, or its absence (undefined)
NoLocation == [defined |-> FALSE, file |-> <<>>, line |-> 0, column |-> 0]

Location(file, line, column) ==
    [defined |-> TRUE, file |-> file, line |-> line, column |-> column]

RECURSIVE DigitRunBack(_, _)
\* the number of decimal digits of s that end at position pos
DigitRunBack(s, pos) == IF pos >= 1 /\ IsDigit(s[pos]) THEN 1 + DigitRunBack(s, pos - 1) ELSE 0

\* the match of /:(\d+):(\d+)/ that ends at position last: at is the position of its first
\* colon, 0 if there is no match
FrameTail(s, last) ==
    LET c == DigitRunBack(s, last)
        colon2 == last - c
        l == DigitRunBack(s, colon2 - 1)
        colon1 == colon2 - 1 - l
        ok == /\ c >= 1
              /\ colon2 >= 1
              /\ s[colon2] = ":"
              /\ l >= 1
              /\ colon1 >= 1
              /\ s[colon1] = ":"
    IN IF ok
       THEN [at |-> colon1, lineNum |-> Slice(s, colon1 + 1, colon2 - 1),
             col |-> Slice(s, colon2 + 1, last)]
       ELSE [at |-> 0, lineNum |-> <<>>, col |-> <<>>]

\* the text matched by `.+`: not empty, without a line terminator
IsDotPlus(t) == t # <<>> /\ \A k \in 1..Len(t) : t[k] \notin LineTerminators

NoMatch == [ok |-> FALSE, file |-> <<>>, lineNum |-> <<>>, col |-> <<>>]

\* line.match(/\((.+):(\d+):(\d+)\)$/)
MatchParenFrame(line) ==
    LET tail == FrameTail(line, Len(line) - 1)
        opens == {i \in 1..Len(line) :
                     line[i] = "(" /\ IsDotPlus(Slice(line, i + 1, tail.at - 1))}
        open == CHOOSE i \in opens : \A j \in opens : i <= j
    IN IF line = <<>> \/ line[Len(line)] # ")" \/ tail.at = 0 \/ opens = {} THEN NoMatch
       ELSE [ok |-> TRUE, file |-> Slice(line, open + 1, tail.at - 1),
             lineNum |-> tail.lineNum, col |-> tail.col]

\* line.match(/at\s+(.+):(\d+):(\d+)$/)
MatchBareFrame(line) ==
    LET tail == FrameTail(line, Len(line))
        \* <<i, f>>: `at` stands at i, white space fills i + 2 .. f - 1, the file starts at f
        starts == {p \in (1..Len(line)) \X (1..Len(line)) :
                     /\ StartsWithAt(line, <<"a", "t">>, p[1])
                     /\ p[2] >= p[1] + 3
                     /\ \A k \in (p[1] + 2)..(p[2] - 1) : line[k] \in WhiteSpace
                     /\ IsDotPlus(Slice(line, p[2], tail.at - 1))}
        \* the leftmost `at`, and for it the longest run of white space
        best == CHOOSE p \in starts :
                    \A q \in starts : p[1] < q[1] \/ (p[1] = q[1] /\ p[2] >= q[2])
    IN IF tail.at = 0 \/ starts = {} THEN NoMatch
       ELSE [ok |-> TRUE, file |-> Slice(line, best[2], tail.at - 1),
             lineNum |-> tail.lineNum, col |-> tail.col]

\* the first of the two patterns that matches
MatchFrame(line) ==
    IF MatchParenFrame(line).ok THEN MatchParenFrame(line) ELSE MatchBareFrame(line)

\* a variant of IsIgnored that knows the first fragment only
IsIgnored_NodeModulesOnly(file) == indexOf(file, ignoredFragments[1]) # 0

\* ignoredFragments.some(fragment => file.includes(fragment))
IsIgnored(file) ==
    \E k \in 1..Len(ignoredFragments) : indexOf(file, ignoredFragments[k]) # 0

RECURSIVE ScanFrames(_, _)
\* the loop over lines[i - 1 ..]: the first line that matches and whose file is not ignored
ScanFrames(lines, i) ==
    IF i > Len(lines) THEN NoLocation
    ELSE LET match == MatchFrame(lines[i])
         IN IF match.ok /\ ~IsIgnored(match.file)
            THEN Location(match.file, parseInt(match.lineNum).n, parseInt(match.col).n)
            ELSE ScanFrames(lines, i + 1)

\* a captured stack: the text of new Error().stack, or its absence
NoStack == [defined |-> FALSE, text |-> <<>>]

Stack(text) == [defined |-> TRUE, text |-> text]

\* a variant of captureCallSiteLocation that falls back to the wrapper's own frame when no
\* line is acceptable
captureCallSiteLocation_Fallback(stack) ==
    IF ~stack.defined \/ stack.text = <<>> THEN Location(ignoredFragments[3], 1, 1)
    ELSE LET found == ScanFrames(split(stack.text, "\n"), 4)
         IN IF found.defined THEN found ELSE Location(ignoredFragments[3], 1, 1)

\* captureCallSiteLocation, the stack being what new Error().stack yields at the call
captureCallSiteLocation(stack) ==
    IF ~stack.defined \/ stack.text = <<>> THEN NoLocation
    ELSE ScanFrames(split(stack.text, "\n"), 4)

(***************************************************************************)
(* The invocation wrapper: replacementMethod, the step reporter and the    *)
(* step context kept on the invoking instance.                             *)
(***************************************************************************)
\* a description given to the decorator, or its absence: step() or step(undefined)
NoDescription == [defined |-> FALSE, text |-> <<>>]

Description(text) == [defined |-> TRUE, text |-> text]

\* the instances the wrapped methods are called on, and the name of each one's class
Instances == {"p", "q"}

ClassName(inst) == IF inst = "p" THEN <<"P">> ELSE <<"Q">>

\* a variant of MethodName that names the class that declares the method, not the class
\* of the instance
MethodName_Declaring(inst, name) == <<"P", ".">> \o name

\* `${this.constructor.name}.${context.name}`
MethodName(inst, name) == ClassName(inst) \o <<".">> \o name

\* `if (description)`: a description that is given and not the empty string
IsTruthyDescription(description) == description.defined /\ description.text # <<>>

\* replacementMethod up to the call of the locator: the description of the step, or the error
\* thrown to the caller
Prepare(inst, name, method, args) ==
    LET methodName == MethodName(inst, name)
        paramNames == extractFunctionParamNames(method.fnStr)
        placeholders == getPlaceholders(method.description.text)
        missingParams == findMissingParams(placeholders, paramNames)
    IN IF ~IsTruthyDescription(method.description) THEN Ok(methodName)
       ELSE IF Len(missingParams) > 0 THEN MissingParameter(methodName, missingParams)
       ELSE formatDescription(methodName, method.description.text, placeholders,
                              paramNames, args)

\* the value of instance[StepSymbol] when the property is absent
Absent == 0

\* the outcomes of getStepInfo
NoActiveStepContext == [kind |-> "NoActiveStepContext", step |-> Absent]

StepInfo(step) == [kind |-> "step", step |-> step]

\* getStepInfo(instance), given the value of instance[StepSymbol]
getStepInfo(step) == IF step = Absent THEN NoActiveStepContext ELSE StepInfo(step)

\* no lookup was made
NotLooked == [kind |-> "none", step |-> Absent]

VARIABLES
    decorated,   \* the decorated methods: name -> [description, fnStr]
    calls,       \* the wrapped calls, in the order they are made
    stepSymbol,  \* instance -> the value of instance[StepSymbol]
    steps        \* the steps the reporter has recorded, in order

vars == <<decorated, calls, stepSymbol, steps>>

CallIds == 1..MaxCalls

NoOutcome == [kind |-> "none"]

\* how a wrapped call settles: the promise replacementMethod returns resolves to a value
\* or rejects with one
NotSettled == [how |-> "pending", value |-> Undefined]

Resolved(value) == [how |-> "resolved", value |-> value]

Rejected(value) == [how |-> "rejected", value |-> value]

\* an Error object: id is its identity, name its type, stackReadOnly tells that an
\* assignment to its stack property is not possible (a frozen object, a getter without
\* setter)
ErrorObject(id, name, message, stack, stackReadOnly) ==
    [t |-> "error", id |-> id, name |-> name, message |-> message, stack |-> stack,
     stackReadOnly |-> stackReadOnly]

\* the TypeError strict-mode code throws when it assigns to a property that cannot be
\* assigned
AssignmentTypeError ==
    ErrorObject("assignment", "TypeError", <<"r", "e", "a", "d", "o", "n", "l", "y">>,
                <<>>, FALSE)

DecoratorFileName ==
    <<"p", "l", "a", "y", "w", "r", "i", "g", "h", "t", "-", "s", "t", "e", "p", "-",
      "d", "e", "c", "o", "r", "a", "t", "o", "r">>

RECURSIVE WithoutDecoratorLines(_)
\* lines.filter(line => !line.includes("playwright-step-decorator"))
WithoutDecoratorLines(lines) ==
    IF lines = <<>> THEN <<>>
    ELSE IF indexOf(Head(lines), DecoratorFileName) # 0
    THEN WithoutDecoratorLines(Tail(lines))
    ELSE <<Head(lines)>> \o WithoutDecoratorLines(Tail(lines))

\* filterDecoratorFrames(stack)
filterDecoratorFrames(stack) == join(WithoutDecoratorLines(split(stack, "\n")), <<"\n">>)

\* the catch clause of the step's body: what it throws on, given what the wrapped function
\* threw
Rethrown(error) ==
    IF error.t = "error" /\ error.stack # <<>>
    THEN IF error.stackReadOnly THEN AssignmentTypeError
         ELSE [error EXCEPT !.stack = filterDecoratorFrames(error.stack)]
    ELSE error

\* how the step's body, and with it the wrapped call, settles once the wrapped function has
\* returned value or thrown it
BodySettlement(result, value) ==
    IF result = "returned" THEN Resolved(value) ELSE Rejected(Rethrown(value))

IdleCall ==
    [pc |-> "idle", inst |-> "p", name |-> <<>>, args |-> <<>>, outcome |-> NoOutcome,
     located |-> FALSE, location |-> NoLocation, ctx |-> Absent,
     seenAtStart |-> NotLooked, bodyRuns |-> 0, result |-> "none", startedDuring |-> {},
     stack |-> NoStack, targetThis |-> "none", targetArgs |-> <<>>, value |-> Undefined,
     settlement |-> NotSettled]

\* a variant of testStep that keeps the location of the first step for the later ones
testStep_FirstLocation(recorded, description, location) ==
    Append(recorded, [description |-> description,
                      location |-> IF recorded = <<>> THEN location
                                   ELSE recorded[1].location])

\* test.step(description, body, {location}): the reporter records the step; the step's
\* position in the record identifies the TestStepInfo the reporter hands to the body
testStep(recorded, description, location) ==
    Append(recorded, [description |-> description, location |-> location])

\* a variant of BodyStart in which the wrapped function starts before the context is
\* attached
BodyStart_AttachAfter(symbol, inst, step) ==
    [symbol |-> [symbol EXCEPT ![inst] = step], seen |-> getStepInfo(symbol[inst])]

\* the start of the step's body: `this[StepSymbol] = step`, then the wrapped function is
\* called and runs to its first suspension point, where seen is what a getStepInfo(this)
\* made by the wrapped function on the way returns
BodyStart(symbol, inst, step) ==
    LET attached == [symbol EXCEPT ![inst] = step]
    IN [symbol |-> attached, seen |-> getStepInfo(attached[inst])]

\* a variant of BodyEnd without `finally`: the context is removed only when the wrapped
\* function returned
BodyEnd_NoFinally(symbol, inst, result) ==
    IF result = "returned" THEN [symbol EXCEPT ![inst] = Absent] ELSE symbol

\* `finally { delete this[StepSymbol] }` after the wrapped function has settled
BodyEnd(symbol, inst, result) == [symbol EXCEPT ![inst] = Absent]

\* a variant of replacementMethod that locates the call site and reports the step before the
\* description's errors are thrown
replacementMethod_ReportFirst(symbol, recorded, inst, name, method, args, stack) ==
    LET prepared == Prepare(inst, name, method, args)
        call == [IdleCall EXCEPT !.inst = inst, !.name = name, !.args = args,
                                 !.outcome = prepared]
        location == captureCallSiteLocation(stack)
        reported == testStep(recorded, <<>>, location)
    IN IF prepared.kind # "ok"
       THEN [call |-> [call EXCEPT !.pc = "failed", !.located = TRUE,
                                   !.location = location],
             steps |-> reported, symbol |-> symbol]
       ELSE [call |-> [call EXCEPT !.pc = "running", !.located = TRUE,
                                   !.location = location, !.ctx = Len(recorded) + 1,
                                   !.seenAtStart = StepInfo(Len(recorded) + 1),
                                   !.bodyRuns = 1],
             steps |-> testStep(recorded, prepared.description, location),
             symbol |-> [symbol EXCEPT ![inst] = Len(recorded) + 1]]

\* the synchronous part of replacementMethod for a call on inst of the method name with
\* args, stack being the stack an Error captures there: the call, the reporter's record
\* and the instances' step contexts afterwards
replacementMethod(symbol, recorded, inst, name, method, args, stack) ==
    LET prepared == Prepare(inst, name, method, args)
        call == [IdleCall EXCEPT !.inst = inst, !.name = name, !.args = args,
                                 !.outcome = prepared, !.stack = stack]
        location == captureCallSiteLocation(stack)
        reported == testStep(recorded, prepared.description, location)
        started == BodyStart(symbol, inst, Len(reported))
    IN IF prepared.kind # "ok"
       THEN [call |-> [call EXCEPT !.pc = "failed"], steps |-> recorded, symbol |-> symbol]
       ELSE [call |-> [call EXCEPT !.pc = "running", !.located = TRUE,
                                   !.location = location, !.ctx = Len(reported),
                                   !.seenAtStart = started.seen, !.bodyRuns = 1,
                                   !.targetThis = inst, !.targetArgs = args],
             steps |-> reported, symbol |-> started.symbol]

\* the calls on inst whose wrapped function has started and whose step has not finished
InProgressOn(inst) ==
    {d \in CallIds : calls[d].inst = inst /\ calls[d].pc \in {"running", "settled"}}

\* a wrapped method is called: calls are numbered in the order they are made, and
\* startedDuring remembers the calls on the same instance that were in progress
Invoke(c, inst, name, args, stack) ==
    /\ calls[c].pc = "idle"
    /\ \A d \in CallIds : d < c => calls[d].pc # "idle"
    /\ name \in DOMAIN decorated
    /\ \E after \in {replacementMethod(stepSymbol, steps, inst, name, decorated[name],
                                        args, stack)} :
          /\ calls' = [calls EXCEPT ![c] = [after.call EXCEPT
                                               !.startedDuring = InProgressOn(inst)]]
          /\ steps' = after.steps
          /\ stepSymbol' = after.symbol
    /\ UNCHANGED decorated

\* the wrapped function of call c settles: it returns value or throws it
Settle(c, result, value) ==
    /\ calls[c].pc = "running"
    /\ calls' = [calls EXCEPT ![c].pc = "settled", ![c].result = result,
                              ![c].value = value]
    /\ UNCHANGED <<decorated, stepSymbol, steps>>

\* a variant of Finish that leaves the instance's context where it is
Finish_KeepContext(c) ==
    /\ calls[c].pc = "settled"
    /\ calls' = [calls EXCEPT ![c].pc = "done",
                              ![c].settlement = BodySettlement(calls[c].result,
                                                               calls[c].value)]
    /\ UNCHANGED <<decorated, stepSymbol, steps>>

\* the body of call c's step resumes after `await target.call(...)`: catch, finally, and the
\* wrapped call settles as the wrapped function did
Finish(c) ==
    /\ calls[c].pc = "settled"
    /\ calls' = [calls EXCEPT ![c].pc = "done",
                              ![c].settlement = BodySettlement(calls[c].result,
                                                               calls[c].value)]
    /\ stepSymbol' = BodyEnd(stepSymbol, calls[c].inst, calls[c].result)
    /\ UNCHANGED <<decorated, steps>>

TargetResults == {"returned", "threw"}

(***************************************************************************)
(* The inputs of the model.                                                *)
(***************************************************************************)
StackHeader ==
    <<"E", "r", "r", "o", "r", "\n", " ", " ", " ", " ", "a", "t", " ", "c",
      "a", "p", "t", "u", "r", "e", "C", "a", "l", "l", "S", "i", "t", "e",
      "L", "o", "c", "a", "t", "i", "o", "n", " ", "(", "/", "l", "i", "b",
      "/", "s", "r", "c", "/", "p", "l", "a", "y", "w", "r", "i", "g", "h",
      "t", "-", "s", "t", "e", "p", "-", "d", "e", "c", "o", "r", "a", "t",
      "o", "r", ".", "t", "s", ":", "1", "1", "0", ":", "1", "6", ")", "\n",
      " ", " ", " ", " ", "a", "t", " ", "r", "e", "p", "l", "a", "c", "e",
      "m", "e", "n", "t", "M", "e", "t", "h", "o", "d", " ", "(", "/", "l",
      "i", "b", "/", "s", "r", "c", "/", "p", "l", "a", "y", "w", "r", "i",
      "g", "h", "t", "-", "s", "t", "e", "p", "-", "d", "e", "c", "o", "r",
      "a", "t", "o", "r", ".", "t", "s", ":", "5", "9", ":", "2", "1", ")">>

FrameTest ==
    <<"\n", " ", " ", " ", " ", "a", "t", " ", "S", "u", "i", "t", "e", ".",
      "r", "u", "n", " ", "(", "/", "t", "/", "a", ".", "t", "e", "s", "t",
      ".", "t", "s", ":", "7", ":", "3", ")">>

FrameDependency ==
    <<"\n", " ", " ", " ", " ", "a", "t", " ", "s", "t", "e", "p", " ", "(",
      "/", "n", "o", "d", "e", "_", "m", "o", "d", "u", "l", "e", "s", "/",
      "p", "w", "/", "i", "n", "d", "e", "x", ".", "j", "s", ":", "1", ":",
      "1", ")">>

FrameBare ==
    <<"\n", " ", " ", " ", " ", "a", "t", " ", "/", "t", "/", "b", ".", "t",
      "e", "s", "t", ".", "t", "s", ":", "1", "2", ":", "5">>

\* the stacks captured at the call sites
StackDirect == Stack(StackHeader \o FrameTest)

StackThroughDependency == Stack(StackHeader \o FrameDependency \o FrameBare)

StackOfError ==
    <<"E", "r", "r", "o", "r", ":", " ", "x", "\n", " ", " ", " ", " ", "a",
      "t", " ", "P", ".", "o", "p", "e", "n", " ", "(", "/", "t", "/", "p",
      ".", "t", "s", ":", "4", ":", "9", ")">>

FrameOfDecorator ==
    <<"\n", " ", " ", " ", " ", "a", "t", " ", "P", ".", "r", "e", "p", "l",
      "a", "c", "e", "m", "e", "n", "t", "M", "e", "t", "h", "o", "d", " ",
      "(", "/", "l", "i", "b", "/", "s", "r", "c", "/", "p", "l", "a", "y",
      "w", "r", "i", "g", "h", "t", "-", "s", "t", "e", "p", "-", "d", "e",
      "c", "o", "r", "a", "t", "o", "r", ".", "t", "s", ":", "6", "6", ":",
      "2", "7", ")">>

\* what the wrapped functions throw: errors whose stack runs through the decorator or not,
\* an error without stack, an error whose stack cannot be assigned, and values that are no
\* errors
ErrFramed ==
    ErrorObject("e1", "Error", <<"x">>, StackOfError \o FrameOfDecorator \o FrameTest,
                FALSE)

ErrClean == ErrorObject("e2", "RangeError", <<"x">>, StackOfError \o FrameTest, FALSE)

ErrNoStack == ErrorObject("e3", "Error", <<"x">>, <<>>, FALSE)

ErrReadOnly ==
    ErrorObject("e4", "Error", <<"x">>, StackOfError \o FrameOfDecorator \o FrameTest,
                TRUE)

ThrownText == Str(<<"x">>)

ThrownObject ==
    Obj((<<"s", "t", "a", "c", "k">> :> Str(StackOfError \o FrameOfDecorator)))

\* the frame of a test file named after the decorator it tests
FrameOfNamesake ==
    <<"\n", " ", " ", " ", " ", "a", "t", " ", "S", "u", "i", "t", "e", ".",
      "r", "u", "n", " ", "(", "/", "t", "/", "p", "l", "a", "y", "w", "r",
      "i", "g", "h", "t", "-", "s", "t", "e", "p", "-", "d", "e", "c", "o",
      "r", "a", "t", "o", "r", ".", "t", "e", "s", "t", ".", "t", "s", ":",
      "7", ":", "3", ")">>

\* an error thrown below a frame of the wrapper and a frame of such a test file
ErrNamesake ==
    ErrorObject("e5", "Error", <<"x">>,
                StackOfError \o FrameOfDecorator \o FrameOfNamesake, FALSE)

ThrownValues ==
    {ErrFramed, ErrClean, ErrNoStack, ErrReadOnly, ErrNamesake, ThrownText, ThrownObject}

\* what the wrapped functions return
ReturnedValues == {Undefined, Number(7), Obj((<<"k">> :> Number(7)))}

\* the value the wrapped functions of the wrapper specification return or throw
ValueOf(result) == IF result = "returned" THEN Number(7) ELSE ErrFramed

\* the first three lines of a stack captured when the wrapper is bundled into the tests' own
\* file
StackHeaderBundled ==
    <<"E", "r", "r", "o", "r", "\n", " ", " ", " ", " ", "a", "t", " ", "c",
      "a", "p", "t", "u", "r", "e", "C", "a", "l", "l", "S", "i", "t", "e",
      "L", "o", "c", "a", "t", "i", "o", "n", " ", "(", "/", "t", "/", "b",
      "u", "n", "d", "l", "e", ".", "j", "s", ":", "1", ":", "1", ")", "\n",
      " ", " ", " ", " ", "a", "t", " ", "P", ".", "r", "e", "p", "l", "a",
      "c", "e", "m", "e", "n", "t", "M", "e", "t", "h", "o", "d", " ", "(",
      "/", "t", "/", "b", "u", "n", "d", "l", "e", ".", "j", "s", ":", "2",
      ":", "2", ")">>

\* the stacks captured when Error.stackTraceLimit cuts them before the callers' frames
StackHeaderOnly ==
    <<"E", "r", "r", "o", "r">>

StackOneFrame ==
    <<"E", "r", "r", "o", "r", "\n", " ", " ", " ", " ", "a", "t", " ", "c",
      "a", "p", "t", "u", "r", "e", "C", "a", "l", "l", "S", "i", "t", "e",
      "L", "o", "c", "a", "t", "i", "o", "n", " ", "(", "/", "t", "/", "b",
      "u", "n", "d", "l", "e", ".", "j", "s", ":", "1", ":", "1", ")">>

FrameInternal ==
    <<"\n", " ", " ", " ", " ", "a", "t", " ", "n", "o", "d", "e", ":", "i",
      "n", "t", "e", "r", "n", "a", "l", "/", "p", "r", "o", "c", "e", "s",
      "s", "/", "t", "a", "s", "k", "_", "q", "u", "e", "u", "e", "s", ":",
      "9", "5", ":", "5">>

FrameNative ==
    <<"\n", " ", " ", " ", " ", "a", "t", " ", "n", "e", "w", " ", "P", "r",
      "o", "m", "i", "s", "e", " ", "(", "<", "a", "n", "o", "n", "y", "m",
      "o", "u", "s", ">", ")">>

\* the frames of callers a captured stack is made of
CallerFrames ==
    {FrameTest, FrameBare, FrameDependency, FrameInternal, FrameOfDecorator, FrameNative}

RECURSIVE FramesUpTo(_)
\* the texts of at most n frames of callers
FramesUpTo(n) ==
    IF n = 0 THEN {<<>>}
    ELSE LET shorter == FramesUpTo(n - 1)
         IN shorter \cup {t \o f : t \in shorter, f \in CallerFrames}

\* what new Error().stack yields in the locator: nothing, the empty text, a stack cut short,
\* or the frames of the locator and of the wrapper followed by the callers' frames
Stacks ==
    {NoStack, Stack(<<>>), Stack(StackHeaderOnly), Stack(StackOneFrame)}
    \cup {Stack(h \o t) : h \in {StackHeader, StackHeaderBundled},
                           t \in FramesUpTo(MaxFrames)}

\* the fragments the templates are made of
FragText == <<"x">>

FragA == <<"{", "{", "a", "}", "}">>

FragB == <<"{", "{", "b", "}", "}">>

FragC == <<"{", "{", "c", "}", "}">>

FragAPQ == <<"{", "{", "a", ".", "p", ".", "q", "}", "}">>

FragAQP == <<"{", "{", "a", ".", "q", ".", "p", "}", "}">>

Frag0 == <<"[", "[", "0", "]", "]">>

Frag1 == <<"[", "[", "1", "]", "]">>

Frag00 == <<"[", "[", "0", "0", "]", "]">>

Frag01 == <<"[", "[", "0", "1", "]", "]">>

FragCurlySquare == <<"{", "{", "[", "[", "0", "]", "]", "}", "}">>

\* the fragments of the formatter specification: text, named and positional placeholders
Fragments == {FragText, FragA, FragB, FragC, FragAPQ, FragAQP, Frag0, Frag1}

\* the fragments of the specification of unusual placeholders: indices written with
\* leading zeros, and square brackets inside curly ones
EdgeFragments == {FragText, FragA, FragC, Frag0, Frag1, Frag00, Frag01, FragCurlySquare}

\* the pieces of the specification of the placeholder syntax: delimiters that open and
\* close, a closing brace and a line terminator that may stand between them
SyntaxPieces ==
    {FragText, CloseCurly, CloseSquare,
     <<"{", "{", "a">>, <<"}", "b">>, <<"\n", "b">>,
     <<"[", "[", "0">>, <<"[", "[", "a">>}

RECURSIVE TemplatesOver(_, _)
\* the concatenations of at most n of the fragments
TemplatesOver(fragments, n) ==
    IF n = 0 THEN {<<>>}
    ELSE LET shorter == TemplatesOver(fragments, n - 1)
         IN shorter \cup {t \o f : t \in shorter, f \in fragments}

\* what the decorator is given: nothing, or a template
DescriptionsOver(fragments) ==
    {NoDescription} \cup {Description(t) : t \in TemplatesOver(fragments, MaxTokens)}

\* the source texts of the wrapped functions
FnTwoParams == <<"a", "s", "y", "n", "c", " ", "m", "(", "a", ",", " ", "b", ")", " ", "{", " ", "}">>

FnOneParam == <<"a", "s", "y", "n", "c", " ", "m", "(", "a", ")", " ", "{", " ", "}">>

FnNoParams == <<"a", "s", "y", "n", "c", " ", "o", "p", "e", "n", "(", ")", " ", "{", " ", "}">>

\* the texts of parameters as they are declared: plain, and with default values that hold
\* commas inside parentheses and brackets
ParamA == <<"a">>

ParamBDefault == <<"b", " ", "=", " ", "f", "(", "1", ",", " ", "2", ")">>

ParamD == <<"d">>

ParamTexts ==
    {ParamA, ParamBDefault, ParamD,
     <<"c", " ", "=", " ", "[", "1", ",", " ", "2", "]">>}

RECURSIVE ParamListsUpTo(_)
\* the lists of at most n different parameters
ParamListsUpTo(n) ==
    IF n = 0 THEN {<<>>}
    ELSE LET shorter == ParamListsUpTo(n - 1)
         IN shorter \cup {Append(l, t) : <<l, t>> \in
                             {<<m, u>> \in shorter \X ParamTexts : ~includes(m, u)}}

\* target.toString() of a method m declared with the parameters params
SignatureOf(params) ==
    <<"a", "s", "y", "n", "c", " ", "m", "(">> \o join(params, <<",", " ">>) \o <<")", " ", "{", " ", "}">>

\* the values passed as arguments
ValDollars == Str(<<"$", "$">>)

ValPlaceholder == Str(FragB)

ValNumber == Number(42)

ValNested == Obj((<<"p">> :> Obj((<<"q">> :> ValNumber))))

ValNullProp == Obj((<<"p">> :> Null))

Values == {ValDollars, ValPlaceholder, ValNested, ValNullProp}

\* a text that String.prototype.replace reads as a replacement pattern
ValAmpersand == Str(<<"$", "&">>)

EdgeValues == {ValNumber, ValPlaceholder, ValAmpersand}

RECURSIVE ArgListsOver(_, _)
\* the argument lists of at most n of the values
ArgListsOver(values, n) ==
    IF n = 0 THEN {<<>>}
    ELSE LET shorter == ArgListsOver(values, n - 1)
         IN shorter \cup {Append(a, v) : a \in shorter, v \in values}

\* the name of the one method of the formatter specification
NameM == <<"m">>

\* the class of the wrapper specification: open is decorated with step(), pick with
\* step("[[0]]")
NameOpen == <<"o", "p", "e", "n">>

NamePick == <<"p", "i", "c", "k">>

DecoratedClass ==
    (NameOpen :> [description |-> NoDescription, fnStr |-> FnNoParams])
    @@ (NamePick :> [description |-> Description(Frag0), fnStr |-> FnOneParam])

\* the call sites of the wrapper specification
CallSites ==
    {[inst |-> "p", name |-> NameOpen, args |-> <<>>, stack |-> StackDirect],
     [inst |-> "q", name |-> NameOpen, args |-> <<ValPlaceholder>>,
      stack |-> StackThroughDependency],
     [inst |-> "p", name |-> NamePick, args |-> <<ValNumber>>,
      stack |-> StackThroughDependency],
     [inst |-> "p", name |-> NamePick, args |-> <<>>, stack |-> StackDirect],
     [inst |-> "q", name |-> NamePick, args |-> <<ValNested>>, stack |-> NoStack]}

(***************************************************************************)
(* The wrapper specification: the calls of a test on the decorated class,  *)
(* made one after another, nested or overlapping.                          *)
(***************************************************************************)
InitCalls ==
    /\ calls = [c \in CallIds |-> IdleCall]
    /\ stepSymbol = [i \in Instances |-> Absent]
    /\ steps = <<>>

Init ==
    /\ decorated = DecoratedClass
    /\ InitCalls

Next ==
    \/ \E c \in CallIds, site \in CallSites :
          Invoke(c, site.inst, site.name, site.args, site.stack)
    \/ \E c \in CallIds, result \in TargetResults : Settle(c, result, ValueOf(result))
    \/ \E c \in CallIds : Finish(c)

Spec == Init /\ [][Next]_vars

(***************************************************************************)
(* The result specification: calls whose formatting succeeds, the wrapped  *)
(* functions returning or throwing any of the values.                      *)
(***************************************************************************)
ResultSites ==
    {site \in CallSites : site.args # <<>> /\ site.stack # NoStack}

ResultNext ==
    \/ \E c \in CallIds, site \in ResultSites :
          Invoke(c, site.inst, site.name, site.args, site.stack)
    \/ \E c \in CallIds, value \in ReturnedValues : Settle(c, "returned", value)
    \/ \E c \in CallIds, value \in ThrownValues : Settle(c, "threw", value)
    \/ \E c \in CallIds : Finish(c)

ResultSpec == Init /\ [][ResultNext]_vars

(***************************************************************************)
(* The locator specification: one call of open from any captured stack.    *)
(***************************************************************************)
LocatorNext ==
    \/ \E inst \in Instances, stack \in Stacks : Invoke(1, inst, NameOpen, <<>>, stack)
    \/ \E result \in TargetResults : Settle(1, result, ValueOf(result))
    \/ Finish(1)

LocatorSpec == Init /\ [][LocatorNext]_vars

(***************************************************************************)
(* The signature specification: one method declared with any of the        *)
(* parameter lists and decorated with a named placeholder, called once.    *)
(***************************************************************************)
SignatureInit ==
    /\ decorated \in {(NameM :> [description |-> Description(t),
                                 fnStr |-> SignatureOf(params)]) :
                         t \in {FragA, OpenCurly \o ParamD \o CloseCurly},
                         params \in ParamListsUpTo(MaxArgs)}
    /\ InitCalls

SignatureNext ==
    \E args \in ArgListsOver({ValNumber}, MaxArgs) :
        Invoke(1, "p", NameM, args, StackDirect)

SignatureSpec == SignatureInit /\ [][SignatureNext]_vars

(***************************************************************************)
(* The formatter specification: one method decorated with any description  *)
(* over the fragments, called once with any argument list.                 *)
(***************************************************************************)
FormatInit ==
    /\ decorated \in {(NameM :> [description |-> d, fnStr |-> FnTwoParams]) :
                         d \in DescriptionsOver(Fragments)}
    /\ InitCalls

FormatNext ==
    \E args \in ArgListsOver(Values, MaxArgs) : Invoke(1, "p", NameM, args, StackDirect)

FormatSpec == FormatInit /\ [][FormatNext]_vars

(***************************************************************************)
(* The specification of unusual placeholders: as the formatter             *)
(* specification, over other fragments.                                    *)
(***************************************************************************)
EdgeInit ==
    /\ decorated \in {(NameM :> [description |-> d, fnStr |-> FnOneParam]) :
                         d \in DescriptionsOver(EdgeFragments)}
    /\ InitCalls

EdgeNext ==
    \E args \in ArgListsOver(EdgeValues, MaxArgs) :
        Invoke(1, "p", NameM, args, StackDirect)

EdgeSpec == EdgeInit /\ [][EdgeNext]_vars

(***************************************************************************)
(* The specification of the placeholder syntax: one method decorated with  *)
(* any template over the pieces, called once with or without an argument.  *)
(***************************************************************************)
SyntaxInit ==
    /\ decorated \in {(NameM :> [description |-> Description(t), fnStr |-> FnOneParam]) :
                         t \in TemplatesOver(SyntaxPieces, MaxTokens + 1)}
    /\ InitCalls

SyntaxNext ==
    \E args \in ArgListsOver({ValNumber}, 1) : Invoke(1, "p", NameM, args, StackDirect)

SyntaxSpec == SyntaxInit /\ [][SyntaxNext]_vars

(***************************************************************************)
(* Reference notions the properties are stated with.                       *)
(***************************************************************************)
\* the parameter names the wrapped functions declare
DeclaredParams(fnStr) ==
    CASE fnStr = FnTwoParams -> <<<<"a">>, <<"b">>>>
      [] fnStr = FnOneParam -> <<<<"a">>>>
      [] fnStr = FnNoParams -> <<>>

\* call c has been made
Called(c) == calls[c].pc # "idle"

\* call c was made on a method decorated with a template the formatter runs on
Formatted(c) == Called(c) /\ IsTruthyDescription(decorated[calls[c].name].description)

TemplateOf(c) == decorated[calls[c].name].description.text

ParamsOf(c) == DeclaredParams(decorated[calls[c].name].fnStr)

\* the contents of the named placeholders of a template, in text order
NamedOf(template) == CurlyMatches(template, 1)

\* the indices of the positional placeholders of a template, in text order
PositionalOf(template) ==
    LET matches == SquareMatches(template, 1)
    IN [k \in 1..Len(matches) |-> DigitPrefixVal(matches[k], 0)]

\* the text of a named placeholder before its first dot
RootOf(content) == split(content, ".")[1]

\* the argument a root identifier stands for
RootValue(root, params, args) == ArgAt(args, ArrayIndexOf(params, root))

RECURSIVE RefGet(_, _, _)
\* the value reached from value by looking up the segments parts[2..i], undefined when a
\* lookup is not possible
RefGet(value, parts, i) ==
    IF i < 2 THEN value
    ELSE LET owner == RefGet(value, parts, i - 1)
         IN IF owner.t = "object" /\ parts[i] \in DOMAIN owner.props
            THEN owner.props[parts[i]] ELSE Undefined

\* the segments of parts that are absent from their owner or whose owner is no object
FailingSegments(value, parts) ==
    {i \in 2..Len(parts) :
        LET owner == RefGet(value, parts, i - 1)
        IN owner.t # "object" \/ parts[i] \notin DOMAIN owner.props}

Least(S) == CHOOSE i \in S : \A j \in S : i <= j

\* the named placeholders of call c whose path cannot be walked on the arguments
UnwalkableOf(c) ==
    LET named == NamedOf(TemplateOf(c))
    IN {k \in 1..Len(named) :
           FailingSegments(RootValue(RootOf(named[k]), ParamsOf(c), calls[c].args),
                           split(named[k], ".")) # {}}

\* every named placeholder of call c has a declared parameter as its root
AllRootsDeclared(c) ==
    LET named == NamedOf(TemplateOf(c))
    IN \A k \in 1..Len(named) : includes(ParamsOf(c), RootOf(named[k]))

RECURSIVE RefSubstitute(_, _, _, _)
\* simultaneous substitution: each placeholder occurrence of the template from position pos
\* on is replaced by the string form of its value, all other text is copied
RefSubstitute(template, params, args, pos) ==
    LET close == IndexOfFrom(template, CloseCurly, pos + 2)
        content == Slice(template, pos + 2, close - 1)
        digits == DigitRun(template, pos + 2)
    IN IF pos > Len(template) THEN <<>>
       ELSE IF /\ StartsWithAt(template, OpenCurly, pos)
               /\ close # 0
               /\ \A k \in 1..Len(content) : content[k] \notin LineTerminators
       THEN String(RefGet(RootValue(RootOf(content), params, args), split(content, "."),
                          Len(split(content, "."))))
            \o RefSubstitute(template, params, args, close + 2)
       ELSE IF /\ StartsWithAt(template, OpenSquare, pos)
               /\ digits >= 1
               /\ StartsWithAt(template, CloseSquare, pos + 2 + digits)
       THEN String(ArgAt(args, DigitPrefixVal(Slice(template, pos + 2, pos + 1 + digits), 0)
                               + 1))
            \o RefSubstitute(template, params, args, pos + 4 + digits)
       ELSE <<template[pos]>> \o RefSubstitute(template, params, args, pos + 1)

(***************************************************************************)
(* Properties of the description formatter, under FormatSpec.              *)
(***************************************************************************)
\* C1: whenever formatting succeeds, the description is the simultaneous substitution of
\* the template: every placeholder occurrence replaced by the string form of its value,
\* inserted verbatim, all other text unchanged.
C1_SimultaneousSubstitution ==
    \A c \in CallIds :
        Formatted(c) /\ calls[c].outcome.kind = "ok" =>
            calls[c].outcome.description
                = RefSubstitute(TemplateOf(c), ParamsOf(c), calls[c].args, 1)

\* C2: a template with a named placeholder whose root is no parameter name makes the call
\* fail with MissingParameter listing that root, and no description is produced.
C2_UnknownRootFails ==
    \A c \in CallIds :
        Formatted(c) =>
            LET named == NamedOf(TemplateOf(c))
            IN \A k \in 1..Len(named) :
                  ~includes(ParamsOf(c), RootOf(named[k])) =>
                      /\ calls[c].outcome.kind = "MissingParameter"
                      /\ includes(calls[c].outcome.names, RootOf(named[k]))

\* the positional placeholders of call c whose index is not below the argument count
OutOfBoundsOf(c) ==
    LET positional == PositionalOf(TemplateOf(c))
    IN {k \in 1..Len(positional) : positional[k] >= Len(calls[c].args)}

\* the named placeholders of call c all resolve
NamedAllResolve(c) == AllRootsDeclared(c) /\ UnwalkableOf(c) = {}

\* C3 as stated: every positional placeholder [[i]] with i >= the argument count makes the
\* call fail with IndexOutOfBounds reporting that index i and the argument count.
C3_EveryIndexReported ==
    \A c \in CallIds :
        Formatted(c) /\ NamedAllResolve(c) =>
            \A k \in OutOfBoundsOf(c) :
                /\ calls[c].outcome.kind = "IndexOutOfBounds"
                /\ calls[c].outcome.index = NatToText(PositionalOf(TemplateOf(c))[k])
                /\ calls[c].outcome.count = Len(calls[c].args)

\* C3 amended: when some positional placeholder is out of bounds, the call fails with
\* IndexOutOfBounds reporting the argument count and the index of the first such
\* placeholder of the template.
C3_FirstIndexReported ==
    \A c \in CallIds :
        Formatted(c) /\ NamedAllResolve(c) /\ OutOfBoundsOf(c) # {} =>
            /\ calls[c].outcome.kind = "IndexOutOfBounds"
            /\ calls[c].outcome.index
                   = NatToText(PositionalOf(TemplateOf(c))[Least(OutOfBoundsOf(c))])
            /\ calls[c].outcome.count = Len(calls[c].args)

\* a call with one argument failed on the placeholder [[1]] that follows a named one
C3_Witness ==
    /\ calls[1].outcome.kind = "IndexOutOfBounds"
    /\ calls[1].outcome.index = <<"1">>
    /\ calls[1].outcome.count = 1
    /\ TemplateOf(1) = FragA \o Frag1

\* C4: when every named root is declared, the call fails with MissingProperty exactly when
\* some named placeholder cannot be walked, and the error names the first failing segment
\* of the first such placeholder together with its root.
C4_FirstFailingSegment ==
    \A c \in CallIds :
        Formatted(c) /\ AllRootsDeclared(c) =>
            IF UnwalkableOf(c) = {} THEN calls[c].outcome.kind # "MissingProperty"
            ELSE LET content == NamedOf(TemplateOf(c))[Least(UnwalkableOf(c))]
                     parts == split(content, ".")
                     value == RootValue(parts[1], ParamsOf(c), calls[c].args)
                 IN /\ calls[c].outcome.kind = "MissingProperty"
                    /\ calls[c].outcome.segment = parts[Least(FailingSegments(value, parts))]
                    /\ calls[c].outcome.root = parts[1]
                    /\ calls[c].outcome.placeholder = OpenCurly \o content \o CloseCurly

\* the walk of {{a.q.p}} on an object that has p but not q stopped at q, not at p
C4_Witness ==
    /\ calls[1].outcome.kind = "MissingProperty"
    /\ calls[1].outcome.placeholder = FragAQP
    /\ calls[1].outcome.segment = <<"q">>
    /\ calls[1].args = <<ValNested, ValNested>>

(***************************************************************************)
(* Properties of the invocation wrapper.                                   *)
(***************************************************************************)
FormatErrors == {"MissingParameter", "MissingProperty", "IndexOutOfBounds"}

\* the calls for which the reporter was invoked
Reported == {d \in CallIds : calls[d].pc \in {"running", "settled", "done"}}

\* C5: a call whose formatting fails has failed when the wrapped method returns to its
\* caller, the reporter has recorded no step for it, the locator was not run and the wrapped
\* function never started.
C5_FormatFailureBeforeStep ==
    /\ Len(steps) = Cardinality(Reported)
    /\ \A c \in CallIds :
          calls[c].outcome.kind \in FormatErrors =>
              /\ calls[c].pc = "failed"
              /\ ~calls[c].located
              /\ calls[c].location = NoLocation
              /\ calls[c].bodyRuns = 0
              /\ calls[c].ctx = Absent
              /\ calls[c].seenAtStart = NotLooked

\* a call failed on a property of an argument: the arguments were there, and still no step
\* was recorded
C5_Witness ==
    /\ calls[1].outcome.kind = "MissingProperty"
    /\ calls[1].args = <<ValNullProp, ValNested>>
    /\ steps = <<>>

\* C6: for a template without placeholders, the empty one included, and any arguments, the
\* description handed to the reporter is the template.
C6_PlaceholderFreeUnchanged ==
    \A c \in CallIds :
        /\ Called(c)
        /\ decorated[calls[c].name].description.defined
        /\ NamedOf(TemplateOf(c)) = <<>>
        /\ PositionalOf(TemplateOf(c)) = <<>>
        => /\ calls[c].outcome.kind = "ok"
           /\ calls[c].ctx \in 1..Len(steps)
           /\ steps[calls[c].ctx].description = TemplateOf(c)

\* C7: a call of a method decorated without a template is reported as the class name of the
\* instance it is made on, a dot and the method's name, whatever its arguments; it never
\* fails with a formatting error.
C7_DefaultDescription ==
    \A c \in CallIds :
        Called(c) /\ ~decorated[calls[c].name].description.defined =>
            /\ calls[c].outcome.kind = "ok"
            /\ calls[c].ctx \in 1..Len(steps)
            /\ steps[calls[c].ctx].description
                   = (IF calls[c].inst = "p" THEN <<"P">> ELSE <<"Q">>)
                         \o <<".">> \o calls[c].name

\* open was called on an instance of Q with an argument that reads like a placeholder
C7_Witness ==
    \E c \in CallIds :
        /\ calls[c].inst = "q"
        /\ calls[c].name = NameOpen
        /\ calls[c].args = <<ValPlaceholder>>
        /\ steps[calls[c].ctx].description = <<"Q", ".", "o", "p", "e", "n">>

\* C8: an instance on which no wrapped call is in progress has no step context attached,
\* and getStepInfo on it fails with NoActiveStepContext.
C8_NoContextOutsideCalls ==
    \A inst \in Instances :
        InProgressOn(inst) = {} =>
            /\ stepSymbol[inst] = Absent
            /\ getStepInfo(stepSymbol[inst]) = NoActiveStepContext

\* two calls on p overlapped and are over, the first of them by throwing
C8_Witness ==
    /\ calls[1].pc = "done"
    /\ calls[1].result = "threw"
    /\ calls[2].pc = "done"
    /\ calls[2].startedDuring = {1}
    /\ InProgressOn("p") = {}

\* C9: while the wrapped function of a call runs, getStepInfo on its instance returns the
\* context the reporter supplied for that call, other calls on the instance
\* notwithstanding.
C9_OwnContextDuringBody ==
    \A c \in CallIds :
        calls[c].pc = "running" =>
            getStepInfo(stepSymbol[calls[c].inst]) = StepInfo(calls[c].ctx)

\* C10: what a wrapped function sees when it looks its context up as it starts is the
\* context the reporter supplied for its own call, whichever calls are in progress on the
\* instance, and no two calls are supplied the same context.
C10_OwnContextAtStart ==
    \A c \in Reported :
        /\ calls[c].bodyRuns = 1
        /\ calls[c].seenAtStart = StepInfo(calls[c].ctx)
        /\ calls[c].ctx \in 1..Len(steps)
        /\ \A d \in Reported : d # c => calls[d].ctx # calls[c].ctx

\* the second call on p started while the first was running, and both still run
C10_Witness ==
    /\ calls[1].pc = "running"
    /\ calls[2].pc = "running"
    /\ calls[1].inst = "p"
    /\ calls[2].startedDuring = {1}
    /\ stepSymbol["p"] = calls[2].ctx

\* C11: a call whose formatting succeeds calls the wrapped function on the same receiver
\* with the same arguments and resolves to the value the wrapped function returned; when the
\* wrapped function throws, the call rejects with the same object, its type and message
\* unchanged, and with the thrown value untouched when it is no Error or has no stack.
C11_PassThrough ==
    \A c \in CallIds :
        /\ calls[c].pc \in {"running", "settled", "done"} =>
              /\ calls[c].targetThis = calls[c].inst
              /\ calls[c].targetArgs = calls[c].args
        /\ calls[c].pc = "done" /\ calls[c].result = "returned" =>
              calls[c].settlement = Resolved(calls[c].value)
        /\ calls[c].pc = "done" /\ calls[c].result = "threw" =>
              /\ calls[c].settlement.how = "rejected"
              /\ IF calls[c].value.t = "error" /\ calls[c].value.stack # <<>>
                 THEN /\ calls[c].settlement.value.t = "error"
                      /\ calls[c].settlement.value.id = calls[c].value.id
                      /\ calls[c].settlement.value.name = calls[c].value.name
                      /\ calls[c].settlement.value.message = calls[c].value.message
                 ELSE calls[c].settlement.value = calls[c].value

(***************************************************************************)
(* Properties of the call-site locator, under LocatorSpec.                 *)
(***************************************************************************)
\* the lines of the stack captured at call c
StackLinesOf(c) ==
    IF calls[c].stack.defined /\ calls[c].stack.text # <<>>
    THEN split(calls[c].stack.text, "\n") ELSE <<>>

\* the place a line of the stacks stands for when it is a frame outside the ignored files,
\* read off the frames the stacks are made of
FrameMeaning(line) ==
    CASE line = Tail(FrameTest) -> Location(<<"/", "t", "/", "a", ".", "t", "e", "s", "t", ".", "t", "s">>, 7, 3)
      [] line = Tail(FrameBare) -> Location(<<"/", "t", "/", "b", ".", "t", "e", "s", "t", ".", "t", "s">>, 12, 5)
      [] line = split(StackHeaderBundled, "\n")[2] -> Location(<<"/", "t", "/", "b", "u", "n", "d", "l", "e", ".", "j", "s">>, 1, 1)
      [] line = split(StackHeaderBundled, "\n")[3] -> Location(<<"/", "t", "/", "b", "u", "n", "d", "l", "e", ".", "j", "s">>, 2, 2)
      [] OTHER -> NoLocation

\* the lines after the third of the stack of call c that stand for an acceptable frame
AcceptableLinesOf(c) ==
    {i \in 4..Len(StackLinesOf(c)) : FrameMeaning(StackLinesOf(c)[i]).defined}

\* C12: the locator returns the file, line and column of the first line after the third that
\* is a frame outside the ignored files, and nothing when there is no such line; a returned
\* file never contains node_modules, node:internal or the wrapper's file name.
C12_FirstAcceptableFrame ==
    \A c \in CallIds :
        calls[c].located =>
            /\ calls[c].location
                   = IF AcceptableLinesOf(c) = {} THEN NoLocation
                     ELSE FrameMeaning(StackLinesOf(c)[Least(AcceptableLinesOf(c))])
            /\ calls[c].location.defined =>
                  /\ indexOf(calls[c].location.file, <<"n", "o", "d", "e", "_", "m", "o", "d", "u", "l", "e", "s">>) = 0
                  /\ indexOf(calls[c].location.file, <<"n", "o", "d", "e", ":", "i", "n", "t", "e", "r", "n", "a", "l">>) = 0
                  /\ indexOf(calls[c].location.file, DecoratorFileName \o <<".", "t", "s">>) = 0

\* from a stack of the bundled wrapper, a dependency's frame and a test's frame, the test's
\* frame was returned: the three first lines and the dependency were passed over
C12_Witness ==
    /\ calls[1].stack = Stack(StackHeaderBundled \o FrameDependency \o FrameBare)
    /\ calls[1].location = Location(<<"/", "t", "/", "b", ".", "t", "e", "s", "t", ".", "t", "s">>, 12, 5)

\* C13: when the stack of a call is missing or has no acceptable frame after its third
\* line, the call does not fail: its step is recorded once, without location, the wrapped
\* function runs once and what it returns is what the call resolves to.
C13_AbsentLocationTolerated ==
    /\ Len(steps) = Cardinality(Reported)
    /\ \A c \in CallIds :
          Called(c) /\ AcceptableLinesOf(c) = {} =>
              /\ calls[c].outcome.kind = "ok"
              /\ calls[c].pc \in {"running", "settled", "done"}
              /\ calls[c].ctx \in 1..Len(steps)
              /\ steps[calls[c].ctx].location = NoLocation
              /\ steps[calls[c].ctx].description = calls[c].outcome.description
              /\ calls[c].bodyRuns = 1
              /\ calls[c].pc = "done" /\ calls[c].result = "returned" =>
                    calls[c].settlement = Resolved(calls[c].value)

\* a call made from a stack whose only frames are a dependency's and one that does not parse
\* has resolved to what the wrapped function returned
C13_Witness ==
    /\ calls[1].stack = Stack(StackHeader \o FrameDependency \o FrameNative)
    /\ calls[1].pc = "done"
    /\ calls[1].settlement = Resolved(Number(7))
    /\ steps[1].location = NoLocation

(***************************************************************************)
(* Properties of sequences of calls, under Spec.                           *)
(***************************************************************************)
\* the description the call sites of the decorated class stand for: open is reported under
\* its default label, pick under the string form of its argument
SiteDescription(c) ==
    IF calls[c].name = NameOpen
    THEN (IF calls[c].inst = "p" THEN <<"P">> ELSE <<"Q">>) \o <<".", "o", "p", "e", "n">>
    ELSE IF calls[c].args = <<ValNumber>> THEN <<"4", "2">>
    ELSE <<"[", "o", "b", "j", "e", "c", "t", " ", "O", "b", "j", "e", "c", "t", "]">>

\* the location the stack of call c stands for
SiteLocation(c) ==
    IF AcceptableLinesOf(c) = {} THEN NoLocation
    ELSE FrameMeaning(StackLinesOf(c)[Least(AcceptableLinesOf(c))])

\* C14: there is one recorded step per call whose formatting succeeded and one run of the
\* wrapped function per step, the steps stand in the order of the calls, each with the
\* description and the location of its own call, and calls from different call sites have
\* different locations.
C14_OneStepPerCall ==
    /\ Len(steps) = Cardinality(Reported)
    /\ \A c \in CallIds : Called(c) /\ calls[c].outcome.kind = "ok" => c \in Reported
    /\ \A c \in Reported :
          /\ calls[c].bodyRuns = 1
          /\ calls[c].ctx \in 1..Len(steps)
          /\ steps[calls[c].ctx].description = SiteDescription(c)
          /\ steps[calls[c].ctx].location = SiteLocation(c)
          /\ \A d \in Reported :
                /\ c < d => calls[c].ctx < calls[d].ctx
                /\ calls[c].stack # calls[d].stack =>
                      steps[calls[c].ctx].location # steps[calls[d].ctx].location

\* two calls made one after the other from different call sites are over, and their steps
\* carry the two call sites
C14_Witness ==
    /\ calls[1].pc = "done"
    /\ calls[2].pc = "done"
    /\ calls[2].startedDuring = {}
    /\ Len(steps) = 2
    /\ steps[1].location.defined
    /\ steps[2].location.defined
    /\ steps[1].location # steps[2].location
    /\ steps[1].description # steps[2].description

(***************************************************************************)
(* Properties of placeholders of both kinds, under EdgeSpec and FormatSpec.*)
(***************************************************************************)
\* the outcome of call c had its method been decorated with template
OutcomeWith(c, template) ==
    Prepare(calls[c].inst, calls[c].name,
            [description |-> Description(template),
             fnStr |-> decorated[calls[c].name].fnStr],
            calls[c].args)

\* C15: a call decorated with the positional placeholder of an argument that was passed has
\* the outcome it would have with the named placeholder of the parameter at that position,
\* and a template whose placeholders of both kinds all resolve is formatted.
C15_SameResolution ==
    \A c \in CallIds :
        Formatted(c) =>
            /\ \A i \in 1..Len(calls[c].args) :
                  /\ i <= Len(ParamsOf(c))
                  /\ TemplateOf(c) = OpenSquare \o NatToText(i - 1) \o CloseSquare
                  => calls[c].outcome
                         = OutcomeWith(c, OpenCurly \o ParamsOf(c)[i] \o CloseCurly)
            /\ AllRootsDeclared(c) /\ UnwalkableOf(c) = {} /\ OutOfBoundsOf(c) = {} =>
                  calls[c].outcome.kind = "ok"

\* the roots of the named placeholders of call c that are no declared parameters
MissingRootsOf(c) ==
    LET named == NamedOf(TemplateOf(c))
    IN {RootOf(named[k]) : k \in {j \in 1..Len(named) :
                                     ~includes(ParamsOf(c), RootOf(named[j]))}}

\* C16: when named placeholders refer to unknown parameters, the MissingParameter error
\* lists every missing root, and each of them once, however many placeholders refer to it.
C16_MissingListedOnce ==
    \A c \in CallIds :
        Formatted(c) /\ MissingRootsOf(c) # {} =>
            /\ calls[c].outcome.kind = "MissingParameter"
            /\ {calls[c].outcome.names[k] : k \in 1..Len(calls[c].outcome.names)}
                   = MissingRootsOf(c)
            /\ Len(calls[c].outcome.names) = Cardinality(MissingRootsOf(c))
            /\ calls[c].outcome.listed = join(calls[c].outcome.names, <<",", " ">>)

\* the texts of the placeholders of a template
PlaceholderTextsOf(template) ==
    {OpenCurly \o NamedOf(template)[k] \o CloseCurly : k \in 1..Len(NamedOf(template))}
    \cup {OpenSquare \o SquareMatches(template, 1)[k] \o CloseSquare :
             k \in 1..Len(SquareMatches(template, 1))}

\* the number of places of text where p stands
CountOf(text, p) == Cardinality({i \in 1..Len(text) : StartsWithAt(text, p, i)})

\* C17: when formatting succeeds on a template in which a placeholder stands several times,
\* none of its occurrences is left in the description: the placeholder's text stands there
\* only as often as the argument values themselves bring it in.
C17_AllOccurrencesReplaced ==
    \A c \in CallIds :
        Formatted(c) /\ calls[c].outcome.kind = "ok" =>
            \A p \in PlaceholderTextsOf(TemplateOf(c)) :
                CountOf(TemplateOf(c), p) >= 2 =>
                    CountOf(calls[c].outcome.description, p)
                        <= CountOf(RefSubstitute(TemplateOf(c), ParamsOf(c),
                                                 calls[c].args, 1), p)

\* the string forms of the arguments of call c contain no replacement pattern and no
\* placeholder
PlainArgs(c) ==
    \A k \in 1..Len(calls[c].args) :
        /\ indexOf(String(calls[c].args[k]), <<"$">>) = 0
        /\ indexOf(String(calls[c].args[k]), OpenCurly) = 0
        /\ indexOf(String(calls[c].args[k]), OpenSquare) = 0

\* C18: in a template of positional placeholders and text, every placeholder whose value is
\* below the argument count, written with leading zeros or not, is replaced where it stands
\* by the string form of that argument, and nothing else of the template changes. (Stated
\* for arguments without replacement patterns and placeholders.)
C18_LeadingZeros ==
    \A c \in CallIds :
        /\ Formatted(c)
        /\ NamedOf(TemplateOf(c)) = <<>>
        /\ OutOfBoundsOf(c) = {}
        /\ PlainArgs(c)
        => calls[c].outcome
               = Ok(RefSubstitute(TemplateOf(c), ParamsOf(c), calls[c].args, 1))

\* the string forms of the arguments of call c contain no replacement pattern
NoPatternArgs(c) ==
    \A k \in 1..Len(calls[c].args) : indexOf(String(calls[c].args[k]), <<"$">>) = 0

\* C19: the placeholders replaced are those of the template: text of an argument value that
\* reads like a placeholder is copied as it is, and every placeholder of the template is
\* replaced whatever the values are. (Stated for arguments without replacement patterns.)
C19_ValuesNotReinterpreted ==
    \A c \in CallIds :
        Formatted(c) /\ calls[c].outcome.kind = "ok" /\ NoPatternArgs(c) =>
            calls[c].outcome.description
                = RefSubstitute(TemplateOf(c), ParamsOf(c), calls[c].args, 1)

\* C20: the error of a call is fixed by precedence, not by where the placeholders stand:
\* MissingParameter when a named root is unknown; otherwise MissingProperty for the first
\* named placeholder that cannot be walked, also when a positional placeholder out of bounds
\* stands before it; otherwise IndexOutOfBounds for the first positional placeholder out of
\* bounds; otherwise none.
C20_ErrorPrecedence ==
    \A c \in CallIds :
        Formatted(c) =>
            IF MissingRootsOf(c) # {}
            THEN calls[c].outcome.kind = "MissingParameter" /\ calls[c].pc = "failed"
            ELSE IF UnwalkableOf(c) # {}
            THEN /\ calls[c].outcome.kind = "MissingProperty"
                 /\ calls[c].outcome.placeholder
                        = OpenCurly \o NamedOf(TemplateOf(c))[Least(UnwalkableOf(c))]
                              \o CloseCurly
            ELSE IF OutOfBoundsOf(c) # {}
            THEN /\ calls[c].outcome.kind = "IndexOutOfBounds"
                 /\ calls[c].outcome.index
                        = NatToText(PositionalOf(TemplateOf(c))[Least(OutOfBoundsOf(c))])
            ELSE calls[c].outcome.kind = "ok"

(***************************************************************************)
(* Properties of the step context after calls, under Spec.                 *)
(***************************************************************************)
\* C21: whatever calls were made on an instance and however they were interleaved,
\* getStepInfo on no instance returns the context of a call that has finished.
C21_NoStaleContext ==
    \A inst \in Instances :
        \A c \in CallIds :
            calls[c].pc = "done" =>
                getStepInfo(stepSymbol[inst]) # StepInfo(calls[c].ctx)

\* the first call on p has finished by throwing while the second, started during it, still
\* runs: a lookup on p now fails, it does not return the first call's context
C21_Witness ==
    /\ calls[1].pc = "done"
    /\ calls[1].result = "threw"
    /\ calls[1].inst = "p"
    /\ calls[2].pc = "running"
    /\ calls[2].startedDuring = {1}
    /\ getStepInfo(stepSymbol["p"]) = NoActiveStepContext

(***************************************************************************)
(* Properties of the rethrown error, under ResultSpec.                     *)
(***************************************************************************)
\* the file the wrapper is implemented in, as the frames of the stacks name it
WrapperFile == <<"/", "l", "i", "b", "/", "s", "r", "c", "/", "p", "l", "a", "y", "w", "r", "i", "g", "h", "t", "-", "s", "t", "e", "p", "-", "d", "e", "c", "o", "r", "a", "t", "o", "r", ".", "t", "s">>

\* a line of a stack that refers to the wrapper's file
RefersToWrapper(line) == indexOf(line, WrapperFile \o <<":">>) # 0

\* a line of a stack that the locator would accept as a call site
AcceptedByLocator(line) == MatchFrame(line).ok /\ ~IsIgnored(MatchFrame(line).file)

\* C22: when the wrapped function throws an Error with a stack, the stack of the error the
\* call rejects with is the original one without the lines that refer to the wrapper's
\* file: all other lines are kept in their order, among them every frame the locator would
\* accept as a call site. (Stated for errors whose stack can be assigned.)
C22_OnlyWrapperLinesRemoved ==
    \A c \in CallIds :
        /\ calls[c].pc = "done"
        /\ calls[c].result = "threw"
        /\ calls[c].value.t = "error"
        /\ calls[c].value.stack # <<>>
        /\ ~calls[c].value.stackReadOnly
        => LET lines == split(calls[c].value.stack, "\n")
               after == split(calls[c].settlement.value.stack, "\n")
           IN /\ after = SelectSeq(lines, LAMBDA line : ~RefersToWrapper(line))
              /\ \A k \in 1..Len(lines) :
                    AcceptedByLocator(lines[k]) => includes(after, lines[k])

(***************************************************************************)
(* Properties of the parameter names, under SignatureSpec.                 *)
(***************************************************************************)
RECURSIVE TopLevelPieces(_, _, _, _)
\* the pieces of s from position pos on, up to the `)` that closes the parameter list, cut
\* at the commas that stand inside no parentheses, brackets or braces; piece is the text of
\* the piece begun, depth the number of brackets open
TopLevelPieces(s, pos, depth, piece) ==
    IF pos > Len(s) THEN <<piece>>
    ELSE IF s[pos] = ")" /\ depth = 0 THEN <<piece>>
    ELSE IF s[pos] = "," /\ depth = 0
    THEN <<piece>> \o TopLevelPieces(s, pos + 1, depth, <<>>)
    ELSE TopLevelPieces(s, pos + 1,
                        IF s[pos] \in {"(", "[", "{"} THEN depth + 1
                        ELSE IF s[pos] \in {")", "]", "}"} THEN depth - 1
                        ELSE depth,
                        Append(piece, s[pos]))

\* the parameters a function's source declares: the pieces between its first `(` and the
\* matching `)`, trimmed, without the empty ones
DeclaredIn(fnStr) ==
    LET pieces == TopLevelPieces(fnStr, indexOf(fnStr, <<"(">>) + 1, 0, <<>>)
    IN SelectSeq([k \in 1..Len(pieces) |-> trim(pieces[k])], LAMBDA t : t # <<>>)

\* C23: the parameter names a call is formatted with are the top-level pieces of the
\* wrapped function's parameter list, trimmed, in the order they are declared; commas and
\* parentheses inside a parameter neither split it nor end the list.
C23_TopLevelParams ==
    \A c \in CallIds :
        Formatted(c) =>
            /\ extractFunctionParamNames(decorated[calls[c].name].fnStr)
                   = DeclaredIn(decorated[calls[c].name].fnStr)
            /\ includes(DeclaredIn(decorated[calls[c].name].fnStr),
                        RootOf(NamedOf(TemplateOf(c))[1]))
                   => calls[c].outcome.kind # "MissingParameter"

(***************************************************************************)
(* Properties of the placeholder syntax, under SyntaxSpec.                 *)
(***************************************************************************)
RECURSIVE NamedBySyntax(_, _)
\* the contents of the matches of \{\{([^}]*)\}\} in s from position pos on: after `{{`, the
\* characters up to the first `}`, which must begin `}}`
NamedBySyntax(s, pos) ==
    LET i == IndexOfFrom(s, OpenCurly, pos)
        k == IndexOfFrom(s, <<"}">>, i + 2)
    IN IF i = 0 THEN <<>>
       ELSE IF k # 0 /\ StartsWithAt(s, CloseCurly, k)
       THEN <<Slice(s, i + 2, k - 1)>> \o NamedBySyntax(s, k + 2)
       ELSE NamedBySyntax(s, i + 1)

\* the number of digits between `[[` at position i of s and a `]]`, 0 if \[\[(\d+)\]\] does
\* not match there
DigitsAt(s, i) ==
    LET ds == {d \in 1..Len(s) :
                  /\ StartsWithAt(s, OpenSquare, i)
                  /\ \A k \in 1..d : i + 1 + k <= Len(s) /\ IsDigit(s[i + 1 + k])
                  /\ StartsWithAt(s, CloseSquare, i + 2 + d)}
    IN IF ds = {} THEN 0 ELSE CHOOSE d \in ds : TRUE

RECURSIVE PositionalBySyntax(_, _)
\* the matches of \[\[(\d+)\]\] in s from position pos on, leftmost first, none overlapping
PositionalBySyntax(s, pos) ==
    LET starts == {i \in pos..Len(s) : DigitsAt(s, i) # 0}
        i == CHOOSE m \in starts : \A n \in starts : m <= n
    IN IF starts = {} THEN <<>>
       ELSE <<Slice(s, i, i + 3 + DigitsAt(s, i))>>
                \o PositionalBySyntax(s, i + 4 + DigitsAt(s, i))

\* C24: the placeholders the code extracts from a template are the matches of the
\* specified syntax: the contents of the matches of \{\{([^}]*)\}\}, in text order, then
\* the matches of \[\[(\d+)\]\], in text order.
C24_ExtractionBySyntax ==
    \A c \in CallIds :
        Formatted(c) =>
            getPlaceholders(TemplateOf(c))
                = NamedBySyntax(TemplateOf(c), 1) \o PositionalBySyntax(TemplateOf(c), 1)

\* C24, the positional half alone: the positional placeholders extracted are the matches
\* of \[\[(\d+)\]\].
C24_PositionalBySyntax ==
    \A c \in CallIds :
        Formatted(c) =>
            [k \in 1..Len(SquareMatches(TemplateOf(c), 1)) |->
                OpenSquare \o SquareMatches(TemplateOf(c), 1)[k] \o CloseSquare]
                = PositionalBySyntax(TemplateOf(c), 1)

(***************************************************************************)
(* Properties of the bounds of placeholders, under FormatSpec.             *)
(***************************************************************************)
TextUndefined == <<"u", "n", "d", "e", "f", "i", "n", "e", "d">>

\* the named placeholders of call c have no dotted path and a declared parameter as root
OnlyPlainNamed(c) ==
    \A k \in 1..Len(NamedOf(TemplateOf(c))) :
        /\ indexOf(NamedOf(TemplateOf(c))[k], <<".">>) = 0
        /\ includes(ParamsOf(c), NamedOf(TemplateOf(c))[k])

\* C25: bounds are enforced for positional placeholders only. No call fails on a named
\* placeholder without a dotted path whose root is a declared parameter: a template of
\* such placeholders and text is always formatted, and the placeholder of a parameter for
\* which no argument was passed is replaced by the text `undefined`; the positional
\* placeholder of that same position makes the call fail with IndexOutOfBounds, reporting
\* the index and the argument count.
C25_BoundsForPositionalOnly ==
    \A c \in CallIds :
        Formatted(c) =>
            /\ calls[c].outcome.kind = "MissingProperty"
                   => indexOf(calls[c].outcome.placeholder, <<".">>) # 0
            /\ OnlyPlainNamed(c) /\ PositionalOf(TemplateOf(c)) = <<>>
                   => /\ calls[c].outcome.kind = "ok"
                      /\ PlainArgs(c)
                            => calls[c].outcome.description
                                   = RefSubstitute(TemplateOf(c), ParamsOf(c), calls[c].args, 1)
            /\ OnlyPlainNamed(c) /\ OutOfBoundsOf(c) # {}
                   => calls[c].outcome.kind = "IndexOutOfBounds"
            /\ \A i \in (Len(calls[c].args) + 1)..Len(ParamsOf(c)) :
                  /\ TemplateOf(c) = OpenCurly \o ParamsOf(c)[i] \o CloseCurly
                        => calls[c].outcome = Ok(TextUndefined)
                  /\ TemplateOf(c) = FragText \o OpenCurly \o ParamsOf(c)[i] \o CloseCurly
                        => calls[c].outcome = Ok(FragText \o TextUndefined)
                  /\ TemplateOf(c) = OpenSquare \o NatToText(i - 1) \o CloseSquare
                        => /\ calls[c].outcome.kind = "IndexOutOfBounds"
                           /\ calls[c].outcome.index = NatToText(i - 1)
                           /\ calls[c].outcome.count = Len(calls[c].args)

\* a call with one argument on m(a, b) decorated with {{a}}{{b}}: it runs as a step whose
\* description ends with `undefined`, where [[1]] would have failed
C25_Witness ==
    /\ calls[1].pc = "running"
    /\ TemplateOf(1) = FragA \o FragB
    /\ calls[1].args = <<ValNested>>
    /\ calls[1].outcome = Ok(String(ValNested) \o TextUndefined)
    /\ steps[1].description = String(ValNested) \o TextUndefined
    /\ OutcomeWith(1, Frag1).kind = "IndexOutOfBounds"

====
